---- MODULE Spec2Model ----
(***************************************************************************)
(* Model of the JWKS refresh-and-cache core of go-idp-caller:              *)
(*   - jwks.Manager   (the registry: a map guarded by a sync.RWMutex)      *)
(*   - jwks.Updater   (one refresher goroutine per configured IDP)         *)
(*   - server.Server  (the query handlers reading Manager snapshots)       *)
(***************************************************************************)
EXTENDS Integers, Sequences, FiniteSets, TLC

\* ------------------------------------------------------------------ bounds
\* most firings of one updater's ticker
MaxTicks == 2
\* most entries under "idps" in a configuration file
MaxIDPs == 2
\* most directives in a Cache-Control header handed to parseCacheControl
MaxDirectives == 2
\* longest "keys" array an upstream IDP returns
MaxBodyLen == 2
\* last instant of the wall clock; the clock advances with every ticker firing,
\* so MaxTime - 1 attempts follow the initial ones
MaxTime == 2

\* --------------------------------------------------------- program constants
DefaultMaxKeys == 10
DefaultCacheDuration == 900
MergedDefaultCacheDuration == 900
StatusOK == 200
StatusBadRequest == 400
StatusNotFound == 404

\* the zero value of time.Time; the clock starts after it
ZeroTime == 0

\* ------------------------------------------------------------ configuration
\* cfg.IDPs of main.go: the configured IDP entries (config.IDPConfig).
\* max_keys 0 and cache_duration 0 stand for "absent in the YAML".
IDPs == {"a", "b"}

Config ==
    [i \in IDPs |->
        IF i = "a"
        THEN [Name |-> "a", RefreshInterval |-> 60, MaxKeys |-> 1, CacheDuration |-> 300]
        ELSE [Name |-> "b", RefreshInterval |-> 3600, MaxKeys |-> 0, CacheDuration |-> 1800]]

\* a variant that takes only 0 for "not set"
GetMaxKeysZeroOnly(c) == IF c.MaxKeys = 0 THEN DefaultMaxKeys ELSE c.MaxKeys

\* IDPConfig.GetMaxKeys
GetMaxKeys(c) == IF c.MaxKeys <= 0 THEN DefaultMaxKeys ELSE c.MaxKeys

\* IDPConfig.GetCacheDuration
GetCacheDuration(c) == IF c.CacheDuration <= 0 THEN DefaultCacheDuration ELSE c.CacheDuration

\* ------------------------------------------------------------------- values
\* A JWK is carried opaquely; it is identified here by its kid (a number).
\* Body(n) is an upstream "keys" array of n keys, in upstream order n, n-1, .., 1.
Body(n) == [k \in 1..n |-> n - k + 1]

\* *JWKS: the nil pointer, or a JWKS object with its Keys slice
NilJWKS == [isNil |-> TRUE, Keys |-> <<>>]
MkJWKS(keys) == [isNil |-> FALSE, Keys |-> keys]

\* A Go string is a sequence of one-character strings.
MaxAgePrefix == <<"m", "a", "x", "-", "a", "g", "e", "=">>

\* Cache-Control headers an upstream sends: none, or "max-age=600"
Suggestions == {<<>>, MaxAgePrefix \o <<"6", "0", "0">>}

\* How an attempt's HTTP exchange can fail: client.Do returns an error (also on
\* the 10 s timeout), or the status is not 200. A body that cannot be read or
\* parsed takes the same path, return nil, 0, err, with another text.
FailureKinds == {"transport", "status"}

\* err.Error() of the error fetch returns for each failure
ErrorText(kind) ==
    CASE kind = "transport" -> "failed to fetch JWKS"
      [] kind = "status"    -> "unexpected status code"

\* What the upstream does in one attempt: a failure, or a 200 answer with a
\* JSON object whose "keys" member is an array (hasKeys) or is missing/null.
UpstreamResponses ==
    [kind : FailureKinds, hasKeys : {FALSE}, keys : {<<>>}, cacheControl : {<<>>}]
    \cup [kind : {"ok"}, hasKeys : {TRUE}, keys : {Body(n) : n \in 0..MaxBodyLen}, cacheControl : Suggestions]
    \cup [kind : {"ok"}, hasKeys : {FALSE}, keys : {<<>>}, cacheControl : Suggestions]

\* the zero value of IDPData with its Name set (manager.go: &IDPData{Name: name})
NewIDPData(name) ==
    [Name |-> name, JWKS |-> NilJWKS, LastUpdated |-> ZeroTime, LastError |-> "",
     UpdateCount |-> 0, KeyCount |-> 0, MaxKeys |-> 0, CacheDuration |-> 0,
     IDPSuggestedCache |-> 0, RefreshInterval |-> 0, CacheUntil |-> ZeroTime]

\* --------------------------------------------------------------------- state
VARIABLES
    data,       \* Manager.data: map from IDP name to *IDPData (domain = keys present)
    mu,         \* Manager.mu: [w: the updater holding Lock or "none", r: readers holding RLock]
    upc,        \* per updater: where its goroutine is
    call,       \* per updater: the arguments of its pending UpdateWithIDPCache call
    cancelled,  \* ctx.Done() is closed
    now,        \* the wall clock read by time.Now(), in refresh periods
    installed,  \* history: per IDP, the IDPData its last completed publish left
    rpc,        \* per query handler: idle, or inside Get/GetAll for a request
    hist,       \* history: per updater, what its attempts did so far
    header,     \* the Cache-Control header handed to parseCacheControl, as directives
    parsed,     \* what parseCacheControl returned for it
    upstreamKey, \* one key object of an upstream "keys" array, as JSON
    storedKey,  \* the JWK struct json.Unmarshal made of it
    servedKey,  \* the JSON object the views answer for it
    boot,       \* main from config.Load to the started server
    loop,       \* per updater: its Start loop with its ticker and its HTTP client
    cut,        \* one GetAll call, entry by entry
    idpDataAt,  \* the heap: the IDPData struct at each address in use
    jwksAt,     \* the heap: the Keys of the JWKS object at each address in use
    held,       \* per query handler: the pointers Get/GetAll returned to it
    lastResp    \* per updater: what the upstream did in its latest whole attempt,
                \* and whether it had done the same in the attempt before

vars == <<data, mu, upc, call, cancelled, now, installed, rpc, hist, header, parsed,
          upstreamKey, storedKey, servedKey, boot, loop, cut, idpDataAt, jwksAt, held, lastResp>>

\* the state of the parser's run
pvars == <<header, parsed, upstreamKey, storedKey, servedKey, boot, loop, cut>>

\* the registry and its readers at the level of pointers
hvars == <<idpDataAt, jwksAt, held, lastResp>>

\* no attempt made yet
NoResponse ==
    [resp |-> [kind |-> "none", hasKeys |-> FALSE, keys |-> <<>>, cacheControl |-> <<>>],
     repeated |-> FALSE]

Updaters == IDPs
Readers == {"q1"}
\* the handler goroutines when two requests are served at once
AllReaders == Readers \cup {"q2"}

\* the names a query asks for: the configured ones and one that is not
QueryNames == IDPs \cup {"nope"}

NilError == [isNil |-> TRUE, text |-> ""]
MkError(kind) == [isNil |-> FALSE, text |-> ErrorText(kind)]

NoCall ==
    [name |-> "", jwks |-> NilJWKS, maxKeys |-> 0, cacheDuration |-> 0,
     idpSuggestedCache |-> 0, refreshInterval |-> 0, err |-> NilError]

IdleQuery == [state |-> "idle", call |-> "none", name |-> ""]

\* no attempt made yet: attempts counts the completed UpdateWithIDPCache calls,
\* succeeded says that one of them had err = nil, lastFailed that the latest had
\* err # nil, noKeys that the body of the pending attempt had no "keys" array,
\* ticks counts the firings of the updater's ticker that Start has received
NoHistory ==
    [attempts |-> 0, succeeded |-> FALSE, lastFailed |-> FALSE, noKeys |-> FALSE, ticks |-> 0]

NotParsed == [done |-> FALSE, maxAge |-> 0]

\* a JSON object without members; no JWK struct decoded, no object served
EmptyObject == <<>>
NoKey == [present |-> FALSE]

\* a configuration file: whether os.ReadFile and yaml.Unmarshal accept it,
\* and the entries under "idps"
MkFile(readable, wellFormed, idps) ==
    [readable |-> readable, wellFormed |-> wellFormed, idps |-> idps]

\* main at config.Load of a given file: nothing loaded, no goroutine started,
\* an empty Manager, srv.Start has not returned, no signal in sigChan
AtLoad(file) ==
    [file |-> file, pc |-> "load", cfg |-> <<>>, updaters |-> <<>>,
     srv |-> FALSE, m |-> <<>>, srvErr |-> FALSE, sig |-> FALSE]

\* main past its bootstrap
Booted == [AtLoad(MkFile(TRUE, TRUE, <<>>)) EXCEPT !.pc = "wait", !.srv = TRUE]

\* Updater.Start at its initial fetchAndUpdate: the first attempt begun, no
\* request sent yet, the ticker not yet created
AtFirstAttempt ==
    [pc |-> "fetch", inflight |-> 0, sent |-> 0, attempts |-> 1,
     armed |-> FALSE, tick |-> 0, fired |-> 0, missed |-> 0]

\* no GetAll call under way
NoGetAll == [pc |-> "idle", todo |-> {}, result |-> <<>>]

\* a handler that holds no result of Get or GetAll
NothingHeld == [active |-> FALSE, ptrs |-> <<>>, seen |-> <<>>]

\* faulty variant: Start sets up its ticker without the initial fetchAndUpdate
InitWithoutFirstFetch ==
    /\ data = <<>>
    /\ mu = [w |-> "none", r |-> {}]
    /\ upc = [i \in Updaters |-> "wait"]
    /\ call = [i \in Updaters |-> NoCall]
    /\ cancelled = FALSE
    /\ now = 1
    /\ installed = <<>>
    /\ rpc = [q \in AllReaders |-> IdleQuery]
    /\ hist = [i \in Updaters |-> NoHistory]
    /\ header = <<>>
    /\ parsed = NotParsed
    /\ upstreamKey = EmptyObject
    /\ storedKey = NoKey
    /\ servedKey = NoKey
    /\ boot = Booted
    /\ loop = [i \in Updaters |-> AtFirstAttempt]
    /\ cut = NoGetAll
    /\ idpDataAt = <<>>
    /\ jwksAt = <<>>
    /\ held = [q \in Readers |-> NothingHeld]
    /\ lastResp = [i \in Updaters |-> NoResponse]

Init ==
    /\ data = <<>>
    /\ mu = [w |-> "none", r |-> {}]
    /\ upc = [i \in Updaters |-> "fetching"]
    /\ call = [i \in Updaters |-> NoCall]
    /\ cancelled = FALSE
    /\ now = 1
    /\ installed = <<>>
    /\ rpc = [q \in AllReaders |-> IdleQuery]
    /\ hist = [i \in Updaters |-> NoHistory]
    /\ header = <<>>
    /\ parsed = NotParsed
    /\ upstreamKey = EmptyObject
    /\ storedKey = NoKey
    /\ servedKey = NoKey
    /\ boot = Booted
    /\ loop = [i \in Updaters |-> AtFirstAttempt]
    /\ cut = NoGetAll
    /\ idpDataAt = <<>>
    /\ jwksAt = <<>>
    /\ held = [q \in Readers |-> NothingHeld]
    /\ lastResp = [i \in Updaters |-> NoResponse]

\* ------------------------------------------------------------------ Updater
\* trimSpace: s without its leading and trailing spaces and tabs
IsBlank(c) == c \in {" ", "\t"}

trimSpace(s) ==
    LET start == CHOOSE k \in 0..Len(s) :
                     /\ \A j \in 1..k : IsBlank(s[j])
                     /\ (k = Len(s) \/ ~IsBlank(s[k + 1]))
        end == CHOOSE e \in start..Len(s) :
                     /\ \A j \in (e + 1)..Len(s) : IsBlank(s[j])
                     /\ (e = start \/ ~IsBlank(s[e]))
    IN  SubSeq(s, start + 1, end)

\* the loop of splitCacheControl over the characters s[k..]
RECURSIVE SplitLoop(_, _, _, _)
SplitLoop(s, k, result, current) ==
    IF k > Len(s)
    THEN \* add last directive
         IF trimSpace(current) # <<>> THEN Append(result, trimSpace(current)) ELSE result
    ELSE IF s[k] = ","
         THEN SplitLoop(s, k + 1,
                        IF trimSpace(current) # <<>>
                        THEN Append(result, trimSpace(current)) ELSE result,
                        <<>>)
         ELSE SplitLoop(s, k + 1, result, Append(current, s[k]))

\* splitCacheControl: the non-empty trimmed pieces between the commas
splitCacheControl(s) == SplitLoop(s, 1, <<>>, <<>>)

Digits == {"0", "1", "2", "3", "4", "5", "6", "7", "8", "9"}

DigitValue(c) ==
    CASE c = "0" -> 0 [] c = "1" -> 1 [] c = "2" -> 2 [] c = "3" -> 3 [] c = "4" -> 4
      [] c = "5" -> 5 [] c = "6" -> 6 [] c = "7" -> 7 [] c = "8" -> 8 [] c = "9" -> 9

\* strconv.ParseInt of a run of decimal digits
RECURSIVE ParseDigits(_, _)
ParseDigits(s, acc) ==
    IF s = <<>> THEN acc ELSE ParseDigits(Tail(s), 10 * acc + DigitValue(Head(s)))

\* fmt.Sscanf(s, "%d", &maxAge): leading space is skipped, an optional sign
\* is accepted, then the longest run of digits is read and converted; what
\* follows the digits is left unread and is no error. No digit: an error.
Sscanf(s) ==
    LET skip == CHOOSE k \in 0..Len(s) :
                    /\ \A j \in 1..k : IsBlank(s[j])
                    /\ (k = Len(s) \/ ~IsBlank(s[k + 1]))
        signed == skip < Len(s) /\ s[skip + 1] \in {"+", "-"}
        from == IF signed THEN skip + 2 ELSE skip + 1
        to == CHOOSE e \in (from - 1)..Len(s) :
                  /\ \A j \in from..e : s[j] \in Digits
                  /\ (e = Len(s) \/ s[e + 1] \notin Digits)
        magnitude == ParseDigits(SubSeq(s, from, to), 0)
    IN  IF to < from
        THEN [err |-> TRUE, maxAge |-> 0]
        ELSE [err |-> FALSE,
              maxAge |-> IF signed /\ s[skip + 1] = "-" THEN 0 - magnitude ELSE magnitude]

\* the loop of parseCacheControl over directives[k..]
RECURSIVE DirectiveLoop(_, _)
DirectiveLoop(directives, k) ==
    IF k > Len(directives) THEN 0
    ELSE LET directive == directives[k]
         IN  IF /\ Len(directive) > 8
                /\ SubSeq(directive, 1, 8) = MaxAgePrefix
                /\ ~Sscanf(SubSeq(directive, 9, Len(directive))).err
             THEN Sscanf(SubSeq(directive, 9, Len(directive))).maxAge
             ELSE DirectiveLoop(directives, k + 1)

\* parseCacheControl: the max-age of a Cache-Control header value
parseCacheControl(cacheControl) ==
    IF cacheControl = <<>> THEN 0
    ELSE DirectiveLoop(splitCacheControl(cacheControl), 1)

\* Updater.fetch: (jwks, idpMaxAge, err) for what the upstream did.
\* json.Unmarshal into JWKS leaves Keys nil (length 0) when "keys" is
\* missing or null, and reports no error.
fetch(resp) ==
    IF resp.kind # "ok"
    THEN [jwks |-> NilJWKS, idpMaxAge |-> 0, err |-> MkError(resp.kind)]
    ELSE [jwks |-> MkJWKS(IF resp.hasKeys THEN resp.keys ELSE <<>>),
          idpMaxAge |-> parseCacheControl(resp.cacheControl),
          err |-> NilError]

\* Updater.determineCacheDuration
determineCacheDuration(idpMaxAge, configDuration) ==
    IF idpMaxAge <= 0 THEN configDuration
    ELSE IF idpMaxAge < configDuration THEN configDuration
    ELSE idpMaxAge

\* ------------------------------------------------- parseCacheControl alone
\* What can stand after "max-age=": the text, whether it is a non-negative
\* integer in decimal digits, and the number it then denotes.
ValueForms ==
    {[text |-> <<"0">>, isNat |-> TRUE, n |-> 0],
     [text |-> <<"7">>, isNat |-> TRUE, n |-> 7],
     [text |-> <<"6", "0">>, isNat |-> TRUE, n |-> 60],
     [text |-> <<>>, isNat |-> FALSE, n |-> 0],
     [text |-> <<"-", "6">>, isNat |-> FALSE, n |-> 0],
     [text |-> <<"6", "x">>, isNat |-> FALSE, n |-> 0],
     [text |-> <<"x">>, isNat |-> FALSE, n |-> 0]}

\* the directives of a header: max-age with each value form, two directives
\* that are not max-age, and the empty piece between two commas; each with
\* or without a space before and after it
DirectiveForms ==
    [lead : {<<>>, <<" ">>}, name : {MaxAgePrefix}, value : ValueForms, trail : {<<>>, <<" ">>}]
    \cup [lead : {<<>>, <<" ">>},
          name : {<<"p", "u", "b", "l", "i", "c">>, <<"s", "-">> \o MaxAgePrefix, <<>>},
          value : {[text |-> <<>>, isNat |-> FALSE, n |-> 0]},
          trail : {<<>>, <<" ">>}]

\* the headers: up to MaxDirectives directives (none: the header is absent,
\* Header.Get returns "")
Headers == UNION {[1..k -> DirectiveForms] : k \in 0..MaxDirectives}

\* the characters of a header: its directives with commas between them
RECURSIVE HeaderText(_, _)
HeaderText(h, k) ==
    IF k > Len(h) THEN <<>>
    ELSE h[k].lead \o h[k].name \o h[k].value.text \o h[k].trail
         \o (IF k < Len(h) THEN <<",">> ELSE <<>>)
         \o HeaderText(h, k + 1)

\* a run of parseCacheControl on a header
ParseInit ==
    /\ data = <<>>
    /\ mu = [w |-> "none", r |-> {}]
    /\ upc = [i \in Updaters |-> "fetching"]
    /\ call = [i \in Updaters |-> NoCall]
    /\ cancelled = FALSE
    /\ now = 1
    /\ installed = <<>>
    /\ rpc = [q \in AllReaders |-> IdleQuery]
    /\ hist = [i \in Updaters |-> NoHistory]
    /\ header \in Headers
    /\ parsed = NotParsed
    /\ upstreamKey = EmptyObject
    /\ storedKey = NoKey
    /\ servedKey = NoKey
    /\ boot = Booted
    /\ loop = [i \in Updaters |-> AtFirstAttempt]
    /\ cut = NoGetAll
    /\ idpDataAt = <<>>
    /\ jwksAt = <<>>
    /\ held = [q \in Readers |-> NothingHeld]
    /\ lastResp = [i \in Updaters |-> NoResponse]

CallParseCacheControl ==
    /\ ~parsed.done
    /\ parsed' = [done |-> TRUE, maxAge |-> parseCacheControl(HeaderText(header, 1))]
    /\ UNCHANGED <<data, mu, upc, call, cancelled, now, installed, rpc, hist, header,
                   upstreamKey, storedKey, servedKey, boot, loop, cut, hvars>>

ParseNext == CallParseCacheControl

ParseSpec == ParseInit /\ [][ParseNext]_vars

\* ------------------------------------------------------------------ JWK
\* JSON values of a key object's members: strings and arrays of strings
Absent == [kind |-> "absent", str |-> "", list |-> <<>>]
Str(v) == [kind |-> "string", str |-> v, list |-> <<>>]
List(l) == [kind |-> "array", str |-> "", list |-> l]

\* the json tags of the JWK struct, and those tagged omitempty
JWKTags == {"kid", "kty", "alg", "use", "n", "e", "x5c", "x5t", "crv", "x", "y"}
OmitEmptyTags == {"n", "e", "x5c", "x5t", "crv", "x", "y"}

StringMember(obj, tag) == IF tag \in DOMAIN obj THEN obj[tag].str ELSE ""
ListMember(obj, tag) == IF tag \in DOMAIN obj THEN obj[tag].list ELSE <<>>

\* json.Unmarshal into a JWK: members with a field's tag are stored in the
\* field, the other members are skipped, fields without a member stay zero
UnmarshalJWK(obj) ==
    [Kid |-> StringMember(obj, "kid"),
     Kty |-> StringMember(obj, "kty"),
     Alg |-> StringMember(obj, "alg"),
     Use |-> StringMember(obj, "use"),
     N   |-> StringMember(obj, "n"),
     E   |-> StringMember(obj, "e"),
     X5c |-> ListMember(obj, "x5c"),
     X5t |-> StringMember(obj, "x5t"),
     Crv |-> StringMember(obj, "crv"),
     X   |-> StringMember(obj, "x"),
     Y   |-> StringMember(obj, "y")]

\* the JSON value of the field with the given tag
FieldValue(k, tag) ==
    CASE tag = "kid" -> Str(k.Kid)
      [] tag = "kty" -> Str(k.Kty)
      [] tag = "alg" -> Str(k.Alg)
      [] tag = "use" -> Str(k.Use)
      [] tag = "n"   -> Str(k.N)
      [] tag = "e"   -> Str(k.E)
      [] tag = "x5c" -> List(k.X5c)
      [] tag = "x5t" -> Str(k.X5t)
      [] tag = "crv" -> Str(k.Crv)
      [] tag = "x"   -> Str(k.X)
      [] tag = "y"   -> Str(k.Y)

IsEmptyValue(v) == v.str = "" /\ v.list = <<>>

\* json.Marshal of a JWK: every field is written under its tag, except an
\* omitempty field holding its zero value
MarshalJWK(k) ==
    LET written == {tag \in JWKTags :
                       tag \in OmitEmptyTags => ~IsEmptyValue(FieldValue(k, tag))}
    IN  [tag \in written |-> FieldValue(k, tag)]

\* what an upstream may put in a key object: each member absent, empty or
\* set, and one member the JWK struct has no field for
MemberChoices ==
    [kid : {Str("k1")},
     kty : {Str("RSA")},
     alg : {Absent, Str(""), Str("RS256")},
     use : {Absent, Str("sig")},
     n   : {Absent, Str(""), Str("n1")},
     e   : {Absent, Str("AQAB")},
     x5c : {Absent, List(<<>>), List(<<"c1">>)},
     x5t : {Absent},
     crv : {Absent, Str("P-256")},
     x   : {Absent, Str("x1")},
     y   : {Absent},
     key_ops : {Absent, List(<<"verify">>)}]

MemberNames == JWKTags \cup {"key_ops"}

UpstreamKeys ==
    {[m \in {t \in MemberNames : ch[t] # Absent} |-> ch[m]] : ch \in MemberChoices}

KeyInit ==
    /\ data = <<>>
    /\ mu = [w |-> "none", r |-> {}]
    /\ upc = [i \in Updaters |-> "fetching"]
    /\ call = [i \in Updaters |-> NoCall]
    /\ cancelled = FALSE
    /\ now = 1
    /\ installed = <<>>
    /\ rpc = [q \in AllReaders |-> IdleQuery]
    /\ hist = [i \in Updaters |-> NoHistory]
    /\ header = <<>>
    /\ parsed = NotParsed
    /\ upstreamKey \in UpstreamKeys
    /\ storedKey = NoKey
    /\ servedKey = NoKey
    /\ boot = Booted
    /\ loop = [i \in Updaters |-> AtFirstAttempt]
    /\ cut = NoGetAll
    /\ idpDataAt = <<>>
    /\ jwksAt = <<>>
    /\ held = [q \in Readers |-> NothingHeld]
    /\ lastResp = [i \in Updaters |-> NoResponse]

\* fetch decodes the body: the key object becomes a JWK
FetchDecodesKey ==
    /\ ~storedKey.present
    /\ storedKey' = [present |-> TRUE, key |-> UnmarshalJWK(upstreamKey)]
    /\ UNCHANGED <<data, mu, upc, call, cancelled, now, installed, rpc, hist, header,
                   parsed, upstreamKey, servedKey, boot, loop, cut, hvars>>

\* a view encodes its key set: the JWK becomes a key object again
ViewEncodesKey ==
    /\ storedKey.present
    /\ ~servedKey.present
    /\ servedKey' = [present |-> TRUE, key |-> MarshalJWK(storedKey.key)]
    /\ UNCHANGED <<data, mu, upc, call, cancelled, now, installed, rpc, hist, header,
                   parsed, upstreamKey, storedKey, boot, loop, cut, hvars>>

KeyNext == FetchDecodesKey \/ ViewEncodesKey

KeySpec == KeyInit /\ [][KeyNext]_vars

\* ------------------------------------------------------------------ main
\* an integer setting of the YAML: absent, or present with a value
NotSet == [present |-> FALSE, value |-> 0]
SetTo(v) == [present |-> TRUE, value |-> v]

\* the entries a configuration file may list
FileIDPs ==
    [name : IDPs,
     max_keys : {NotSet, SetTo(-1), SetTo(0), SetTo(3)},
     cache_duration : {NotSet, SetTo(-1), SetTo(0), SetTo(300)}]

Files ==
    {MkFile(FALSE, FALSE, <<>>), MkFile(TRUE, FALSE, <<>>)}
    \cup {MkFile(TRUE, TRUE, idps) : idps \in UNION {[1..n -> FileIDPs] : n \in 0..MaxIDPs}}

\* yaml.Unmarshal of an int field: the value, and the zero value when absent
DecodeInt(setting) == IF setting.present THEN setting.value ELSE 0

\* yaml.Unmarshal into Config.IDPs
DecodeIDPs(idps) ==
    [k \in 1..Len(idps) |->
        [Name |-> idps[k].name,
         RefreshInterval |-> 60,
         MaxKeys |-> DecodeInt(idps[k].max_keys),
         CacheDuration |-> DecodeInt(idps[k].cache_duration)]]

BootInit ==
    /\ data = <<>>
    /\ mu = [w |-> "none", r |-> {}]
    /\ upc = [i \in Updaters |-> "fetching"]
    /\ call = [i \in Updaters |-> NoCall]
    /\ cancelled = FALSE
    /\ now = 1
    /\ installed = <<>>
    /\ rpc = [q \in AllReaders |-> IdleQuery]
    /\ hist = [i \in Updaters |-> NoHistory]
    /\ header = <<>>
    /\ parsed = NotParsed
    /\ upstreamKey = EmptyObject
    /\ storedKey = NoKey
    /\ servedKey = NoKey
    /\ boot \in {AtLoad(file) : file \in Files}
    /\ loop = [i \in Updaters |-> AtFirstAttempt]
    /\ cut = NoGetAll
    /\ idpDataAt = <<>>
    /\ jwksAt = <<>>
    /\ held = [q \in Readers |-> NothingHeld]
    /\ lastResp = [i \in Updaters |-> NoResponse]

BootUnchanged ==
    UNCHANGED <<data, mu, upc, call, cancelled, now, installed, rpc, hist, header,
                parsed, upstreamKey, storedKey, servedKey, loop, cut, hvars>>

\* config.Load and main's check of its error: log.Fatalf ends the process,
\* otherwise main goes on to its loop over cfg.IDPs
Load ==
    /\ boot.pc = "load"
    /\ IF boot.file.readable /\ boot.file.wellFormed
       THEN boot' = [boot EXCEPT !.pc = "launch", !.cfg = DecodeIDPs(boot.file.idps)]
       ELSE boot' = [boot EXCEPT !.pc = "fatal"]
    /\ BootUnchanged

\* an updater before its first fetchAndUpdate; maxKeys and cacheDuration are
\* the locals of fetchAndUpdate
Started == [state |-> "started", maxKeys |-> 0, cacheDuration |-> 0]

\* one round of main's loop: go updater.Start(ctx) for the next entry
LaunchUpdater ==
    /\ boot.pc = "launch"
    /\ Len(boot.updaters) < Len(boot.cfg)
    /\ boot' = [boot EXCEPT !.updaters = Append(@, Started)]
    /\ BootUnchanged

\* after the loop: the goroutine running srv.Start; main waits for a signal
StartServer ==
    /\ boot.pc = "launch"
    /\ Len(boot.updaters) = Len(boot.cfg)
    /\ boot' = [boot EXCEPT !.pc = "wait", !.srv = TRUE]
    /\ BootUnchanged

\* the initial fetchAndUpdate of the k-th updater, the upstream sending no
\* Cache-Control: UpdateWithIDPCache writes into the entry of its name
InitialFetchAndUpdate(k) ==
    /\ k \in DOMAIN boot.updaters
    /\ boot.updaters[k].state = "started"
    /\ LET c == boot.cfg[k]
           maxKeys == GetMaxKeys(c)
           cacheDuration == determineCacheDuration(0, GetCacheDuration(c))
           writers == IF c.Name \in DOMAIN boot.m THEN boot.m[c.Name].writers ELSE {}
           entry == [writers |-> writers \cup {k},
                     MaxKeys |-> maxKeys,
                     CacheDuration |-> cacheDuration]
       IN  boot' = [boot EXCEPT
                      !.updaters[k] = [state |-> "published", maxKeys |-> maxKeys,
                                       cacheDuration |-> cacheDuration],
                      !.m = [n \in DOMAIN boot.m \cup {c.Name} |->
                                IF n = c.Name THEN entry ELSE boot.m[n]]]
    /\ BootUnchanged

BootNext ==
    \/ Load
    \/ LaunchUpdater
    \/ StartServer
    \/ \E k \in 1..MaxIDPs : InitialFetchAndUpdate(k)

BootSpec == BootInit /\ [][BootNext]_vars

\* ------------------------------------------------- one updater's Start loop
\* The loop of Updater.Start with what the main model merges into one step:
\* the ticker (a channel of capacity 1 that the runtime fills every
\* RefreshInterval and that drops a tick when it is full) and the HTTP
\* exchange of fetch (client.Do sends the request, the call returns with the
\* answer or an error).
LoopUnchanged ==
    UNCHANGED <<data, mu, upc, call, cancelled, now, installed, rpc, hist, header,
                parsed, upstreamKey, storedKey, servedKey, boot, cut, hvars>>

\* fetch: u.client.Do(req) sends the one request of the attempt
ClientDo(i) ==
    /\ loop[i].pc = "fetch"
    /\ loop' = [loop EXCEPT ![i].pc = "request", ![i].inflight = @ + 1, ![i].sent = @ + 1]
    /\ LoopUnchanged

\* client.Do returns (answer, error or the 10 s timeout); fetch returns,
\* UpdateWithIDPCache stores the outcome and fetchAndUpdate returns to Start:
\* after the first attempt Start creates its ticker, then it is at its select
FetchAndUpdateReturns(i) ==
    /\ loop[i].pc = "request"
    /\ loop' = [loop EXCEPT ![i].pc = "select", ![i].inflight = @ - 1, ![i].armed = TRUE]
    /\ LoopUnchanged

\* the runtime's timer: a refresh interval has passed; the tick goes into
\* ticker.C, or is dropped when the channel still holds one
TickerFires(i) ==
    /\ loop[i].armed
    /\ loop[i].pc # "stopped"
    /\ loop[i].fired < MaxTicks
    /\ loop' = [loop EXCEPT ![i].fired = @ + 1,
                            ![i].tick = 1,
                            ![i].missed = IF loop[i].tick = 1 THEN @ + 1 ELSE @]
    /\ LoopUnchanged

\* faulty variant: the tick is received by a goroutine of its own, which
\* starts the attempt whatever Start is doing (go u.fetchAndUpdate())
SelectTickSpawns(i) ==
    /\ loop[i].pc \in {"select", "request"}
    /\ loop[i].tick = 1
    /\ loop' = [loop EXCEPT ![i].tick = 0, ![i].attempts = @ + 1,
                            ![i].inflight = @ + 1, ![i].sent = @ + 1,
                            ![i].pc = "request"]
    /\ LoopUnchanged

\* select case <-ticker.C: the next attempt begins
SelectTick(i) ==
    /\ loop[i].pc = "select"
    /\ loop[i].tick = 1
    /\ loop' = [loop EXCEPT ![i].tick = 0, ![i].attempts = @ + 1, ![i].pc = "fetch"]
    /\ LoopUnchanged

\* select case <-ctx.Done(): Start returns, the deferred ticker.Stop() runs
SelectDone(i) ==
    /\ loop[i].pc = "select"
    /\ cancelled
    /\ loop' = [loop EXCEPT ![i].pc = "stopped"]
    /\ LoopUnchanged

\* main: cancel()
LoopCancel ==
    /\ ~cancelled
    /\ cancelled' = TRUE
    /\ UNCHANGED <<data, mu, upc, call, now, installed, rpc, hist, pvars, hvars>>

LoopNext ==
    \/ \E i \in Updaters : ClientDo(i)
    \/ \E i \in Updaters : FetchAndUpdateReturns(i)
    \/ \E i \in Updaters : TickerFires(i)
    \/ \E i \in Updaters : SelectTick(i)
    \/ \E i \in Updaters : SelectDone(i)
    \/ LoopCancel

LoopSpec == Init /\ [][LoopNext]_vars

\* ------------------------------------------- the server goroutine and main
\* main after its bootstrap, the goroutine around srv.Start and the updaters'
\* loops: main waits at <-sigChan; when main returns the process ends and
\* every goroutine that is still running goes with it.
ServeUnchanged ==
    UNCHANGED <<data, mu, upc, call, now, installed, rpc, hist, header, parsed,
                upstreamKey, storedKey, servedKey, cut, hvars>>

\* faulty variant: the error of srv.Start is logged and nothing else is done
ServerStartFailsLogsOnly ==
    /\ boot.srv /\ ~boot.srvErr
    /\ boot.pc \in {"wait", "shutdown"}
    /\ boot' = [boot EXCEPT !.srvErr = TRUE]
    /\ UNCHANGED <<cancelled, loop>>
    /\ ServeUnchanged

\* the goroutine of main: srv.Start() returns an error (ListenAndServe could
\* not bind, or stopped serving); it is logged and cancel() is called
ServerStartFails ==
    /\ boot.srv /\ ~boot.srvErr
    /\ boot.pc \in {"wait", "shutdown"}
    /\ boot' = [boot EXCEPT !.srvErr = TRUE]
    /\ cancelled' = TRUE
    /\ UNCHANGED loop
    /\ ServeUnchanged

\* the operating system delivers SIGINT or SIGTERM: signal.Notify puts it
\* into sigChan
SignalArrives ==
    /\ boot.pc = "wait"
    /\ ~boot.sig
    /\ boot' = [boot EXCEPT !.sig = TRUE]
    /\ UNCHANGED <<cancelled, loop>>
    /\ ServeUnchanged

\* main: <-sigChan returns and cancel() is called
MainOnSignal ==
    /\ boot.pc = "wait"
    /\ boot.sig
    /\ boot' = [boot EXCEPT !.pc = "shutdown"]
    /\ cancelled' = TRUE
    /\ UNCHANGED loop
    /\ ServeUnchanged

\* main: srv.Shutdown returns and main returns; the process ends with
\* whatever goroutine is still running
MainReturns ==
    /\ boot.pc = "shutdown"
    /\ boot' = [boot EXCEPT !.pc = "exited"]
    /\ loop' = [i \in Updaters |->
                   IF loop[i].pc = "stopped" THEN loop[i]
                   ELSE [loop[i] EXCEPT !.pc = "killed", !.armed = FALSE]]
    /\ UNCHANGED cancelled
    /\ ServeUnchanged

ServeNext ==
    \/ \E i \in Updaters : ClientDo(i)
    \/ \E i \in Updaters : FetchAndUpdateReturns(i)
    \/ \E i \in Updaters : TickerFires(i)
    \/ \E i \in Updaters : SelectTick(i)
    \/ \E i \in Updaters : SelectDone(i)
    \/ ServerStartFails
    \/ SignalArrives
    \/ MainOnSignal
    \/ MainReturns

\* What the Go scheduler and the code give: a runnable goroutine runs
\* (client.Do is sent, main goes on after its receive); client.Do returns
\* within the client's 10 s timeout and UpdateWithIDPCache within its
\* critical section; a select whose <-ctx.Done() is ready picks it sooner or
\* later. Nothing is assumed of the server's failure or of the signal.
ServeFairness ==
    /\ \A i \in Updaters :
          /\ WF_vars(ClientDo(i))
          /\ WF_vars(FetchAndUpdateReturns(i))
          /\ SF_vars(SelectDone(i))
    /\ WF_vars(MainOnSignal)
    /\ WF_vars(MainReturns)

ServeSpec == Init /\ [][ServeNext]_vars /\ ServeFairness

\* every upstream behaviour with what fetch returns for it
FetchOutcomes == {[resp |-> resp, ret |-> fetch(resp)] : resp \in UpstreamResponses}

\* the arguments fetchAndUpdate hands to UpdateWithIDPCache when fetch returned f
Arguments(i, f) ==
    [name |-> Config[i].Name,
     jwks |-> f.jwks,
     maxKeys |-> GetMaxKeys(Config[i]),
     cacheDuration |-> determineCacheDuration(f.idpMaxAge, GetCacheDuration(Config[i])),
     idpSuggestedCache |-> f.idpMaxAge,
     refreshInterval |-> Config[i].RefreshInterval,
     err |-> f.err]

\* Updater.fetchAndUpdate up to the call of UpdateWithIDPCache: the HTTP
\* exchange completes and the arguments of the publish are computed.
fetchAndUpdate(i) ==
    /\ upc[i] = "fetching"
    /\ \E o \in FetchOutcomes :
         /\ call' = [call EXCEPT ![i] = Arguments(i, o.ret)]
         /\ hist' = [hist EXCEPT ![i].noKeys = (o.resp.kind = "ok" /\ ~o.resp.hasKeys)]
    /\ upc' = [upc EXCEPT ![i] = "publish"]
    /\ UNCHANGED <<data, mu, cancelled, now, installed, rpc, pvars, hvars>>

\* ------------------------------------------------------------------ Manager
\* faulty variant: Lock does not wait for the readers
CanLockIgnoresReaders == mu.w = "none"

\* sync.RWMutex: Lock needs no holder at all, RLock needs no writer
CanLock == mu.w = "none" /\ mu.r = {}
CanRLock == mu.w = "none"

\* faulty variant: the attempt is counted in the success branch only
UpdateEveryAttemptCountsSuccesses(d, c, t) ==
    [d EXCEPT !.LastUpdated = t,
              !.UpdateCount = IF c.err.isNil THEN @ + 1 ELSE @,
              !.MaxKeys = c.maxKeys,
              !.CacheDuration = c.cacheDuration,
              !.IDPSuggestedCache = c.idpSuggestedCache,
              !.RefreshInterval = c.refreshInterval]

\* UpdateWithIDPCache, the assignments made on every attempt
UpdateEveryAttempt(d, c, t) ==
    [d EXCEPT !.LastUpdated = t,
              !.UpdateCount = @ + 1,
              !.MaxKeys = c.maxKeys,
              !.CacheDuration = c.cacheDuration,
              !.IDPSuggestedCache = c.idpSuggestedCache,
              !.RefreshInterval = c.refreshInterval]

\* faulty variant: the key limit is not applied
ApplyKeyLimitOff(keys, maxKeys) == keys

\* faulty variant: the last maxKeys keys are kept instead of the first
ApplyKeyLimitTail(keys, maxKeys) ==
    IF Len(keys) > maxKeys THEN SubSeq(keys, Len(keys) - maxKeys + 1, Len(keys)) ELSE keys

\* jwks.Keys = jwks.Keys[:maxKeys] when the upstream sent more
ApplyKeyLimit(keys, maxKeys) ==
    IF Len(keys) > maxKeys THEN SubSeq(keys, 1, maxKeys) ELSE keys

\* faulty variant: data.JWKS is assigned before the error is looked at, so a failed
\* attempt stores the nil JWKS it was handed
UpdateOutcomeAssignsFirst(d, c, t) ==
    IF ~c.err.isNil
    THEN [d EXCEPT !.JWKS = c.jwks, !.LastError = c.err.text]
    ELSE LET keys == ApplyKeyLimit(c.jwks.Keys, c.maxKeys)
         IN  [d EXCEPT !.JWKS = MkJWKS(keys),
                       !.KeyCount = Len(keys),
                       !.CacheUntil = t + c.cacheDuration,
                       !.LastError = ""]

\* faulty variant: the error branch records nothing
UpdateOutcomeDropsError(d, c, t) ==
    IF ~c.err.isNil
    THEN d
    ELSE LET keys == ApplyKeyLimit(c.jwks.Keys, c.maxKeys)
         IN  [d EXCEPT !.JWKS = MkJWKS(keys),
                       !.KeyCount = Len(keys),
                       !.CacheUntil = t + c.cacheDuration,
                       !.LastError = ""]

\* faulty variant: the success branch leaves LastError as it was
UpdateOutcomeKeepsError(d, c, t) ==
    IF ~c.err.isNil
    THEN [d EXCEPT !.LastError = c.err.text]
    ELSE LET keys == ApplyKeyLimit(c.jwks.Keys, c.maxKeys)
         IN  [d EXCEPT !.JWKS = MkJWKS(keys),
                       !.KeyCount = Len(keys),
                       !.CacheUntil = t + c.cacheDuration]

\* UpdateWithIDPCache, the error branch and the success branch
UpdateOutcome(d, c, t) ==
    IF ~c.err.isNil
    THEN [d EXCEPT !.LastError = c.err.text]
    ELSE LET keys == ApplyKeyLimit(c.jwks.Keys, c.maxKeys)
         IN  [d EXCEPT !.JWKS = MkJWKS(keys),
                       !.KeyCount = Len(keys),
                       !.CacheUntil = t + c.cacheDuration,
                       !.LastError = ""]

\* faulty variant: the entry is made anew on every call
EntryForRecreates(d, name) == NewIDPData(name)

\* data, exists := m.data[name]; a new IDPData when the name has no entry
EntryFor(d, name) == IF name \in DOMAIN d THEN d[name] ELSE NewIDPData(name)

\* faulty variant: the call stamps LastUpdated on every entry of the map
UpdateWithIDPCacheEnterStampsAll(i) ==
    /\ upc[i] = "publish"
    /\ CanLock
    /\ mu' = [mu EXCEPT !.w = i]
    /\ LET name == call[i].name
           d == EntryFor(data, name)
       IN  data' = [n \in DOMAIN data \cup {name} |->
                       IF n = name THEN UpdateEveryAttempt(d, call[i], now)
                       ELSE [data[n] EXCEPT !.LastUpdated = now]]
    /\ upc' = [upc EXCEPT ![i] = "locked"]
    /\ UNCHANGED <<call, cancelled, now, installed, rpc, hist, pvars, hvars>>

\* UpdateWithIDPCache, first part: take the write lock, create the slot on
\* the first call, store the per-attempt fields.
UpdateWithIDPCacheEnter(i) ==
    /\ upc[i] = "publish"
    /\ CanLock
    /\ mu' = [mu EXCEPT !.w = i]
    /\ LET name == call[i].name
           d == EntryFor(data, name)
       IN  data' = [n \in DOMAIN data \cup {name} |->
                       IF n = name THEN UpdateEveryAttempt(d, call[i], now) ELSE data[n]]
    /\ upc' = [upc EXCEPT ![i] = "locked"]
    /\ UNCHANGED <<call, cancelled, now, installed, rpc, hist, pvars, hvars>>

\* faulty variant: the call returns without the deferred Unlock
UpdateWithIDPCacheExitKeepsLock(i) ==
    /\ upc[i] = "locked"
    /\ mu.w = i
    /\ LET name == call[i].name
           d == UpdateOutcome(data[name], call[i], now)
       IN  /\ data' = [data EXCEPT ![name] = d]
           /\ installed' = [n \in DOMAIN installed \cup {name} |->
                               IF n = name THEN d ELSE installed[n]]
    /\ call' = [call EXCEPT ![i] = NoCall]
    /\ upc' = [upc EXCEPT ![i] = "wait"]
    /\ hist' = [hist EXCEPT ![i] =
                   [@ EXCEPT !.attempts = @ + 1,
                             !.succeeded = @ \/ call[i].err.isNil,
                             !.lastFailed = ~call[i].err.isNil,
                             !.noKeys = FALSE]]
    /\ UNCHANGED <<mu, cancelled, now, rpc, pvars, hvars>>

\* UpdateWithIDPCache, second part: the outcome branch, then the deferred
\* Unlock; the call returns and Start goes on to its select.
UpdateWithIDPCacheExit(i) ==
    /\ upc[i] = "locked"
    /\ mu.w = i
    /\ LET name == call[i].name
           d == UpdateOutcome(data[name], call[i], now)
       IN  /\ data' = [data EXCEPT ![name] = d]
           /\ installed' = [n \in DOMAIN installed \cup {name} |->
                               IF n = name THEN d ELSE installed[n]]
    /\ mu' = [mu EXCEPT !.w = "none"]
    /\ call' = [call EXCEPT ![i] = NoCall]
    /\ upc' = [upc EXCEPT ![i] = "wait"]
    /\ hist' = [hist EXCEPT ![i] =
                   [@ EXCEPT !.attempts = @ + 1,
                             !.succeeded = @ \/ call[i].err.isNil,
                             !.lastFailed = ~call[i].err.isNil,
                             !.noKeys = FALSE]]
    /\ UNCHANGED <<cancelled, now, rpc, pvars, hvars>>

\* Updater.Start, select case <-ticker.C: a refresh period has passed, the
\* next attempt begins
StartOnTick(i) ==
    /\ upc[i] = "wait"
    /\ now < MaxTime
    /\ now' = now + 1
    /\ upc' = [upc EXCEPT ![i] = "fetching"]
    /\ hist' = [hist EXCEPT ![i].ticks = @ + 1]
    /\ UNCHANGED <<data, mu, call, cancelled, installed, rpc, pvars, hvars>>

\* faulty variant: on <-ctx.Done() a break leaves the select, not the loop
StartOnDoneBreaksSelect(i) ==
    /\ upc[i] = "wait"
    /\ cancelled
    /\ UNCHANGED vars

\* Updater.Start, select case <-ctx.Done(): the goroutine returns
StartOnDone(i) ==
    /\ upc[i] = "wait"
    /\ cancelled
    /\ upc' = [upc EXCEPT ![i] = "stopped"]
    /\ UNCHANGED <<data, mu, call, cancelled, now, installed, rpc, hist, pvars, hvars>>

\* main: cancel() after the shutdown signal or a server failure
Cancel ==
    /\ ~cancelled
    /\ cancelled' = TRUE
    /\ UNCHANGED <<data, mu, upc, call, now, installed, rpc, hist, pvars, hvars>>

\* ------------------------------------------------------------ Manager reads
\* faulty variant: the copy is built without the attempt counter
GetCopyWithoutCount(d) ==
    [NewIDPData(d.Name) EXCEPT !.JWKS = d.JWKS,
                               !.LastUpdated = d.LastUpdated,
                               !.LastError = d.LastError]

\* Manager.Get: the copy it builds (only five fields are copied, the others
\* keep their zero values)
GetCopy(d) ==
    [NewIDPData(d.Name) EXCEPT !.JWKS = d.JWKS,
                               !.LastUpdated = d.LastUpdated,
                               !.LastError = d.LastError,
                               !.UpdateCount = d.UpdateCount]

\* Manager.Get(name) -> (dataCopy, exists)
Get(name) ==
    IF name \in DOMAIN data
    THEN [exists |-> TRUE, d |-> GetCopy(data[name])]
    ELSE [exists |-> FALSE, d |-> NewIDPData("")]

\* Manager.GetAll: the copy it builds for one entry (IDPSuggestedCache and
\* RefreshInterval are not copied)
GetAllCopy(d) ==
    [NewIDPData(d.Name) EXCEPT !.JWKS = d.JWKS,
                               !.LastUpdated = d.LastUpdated,
                               !.LastError = d.LastError,
                               !.UpdateCount = d.UpdateCount,
                               !.KeyCount = d.KeyCount,
                               !.MaxKeys = d.MaxKeys,
                               !.CacheDuration = d.CacheDuration,
                               !.CacheUntil = d.CacheUntil]

\* Manager.GetAll() -> map from name to copy
GetAll == [n \in DOMAIN data |-> GetAllCopy(data[n])]

\* ------------------------------------------------------------------- Server
\* the orders in which "for _, data := range all" can visit a map
RangeOrders(m) ==
    {o \in [1..Cardinality(DOMAIN m) -> DOMAIN m] :
        \A x, y \in DOMAIN o : x # y => o[x] # o[y]}

\* faulty variant: a key whose kid is already in the merged array is left out
RECURSIVE MergeLoopDedup(_, _, _, _)
MergeLoopDedup(all, order, k, acc) ==
    IF k > Len(order) THEN acc
    ELSE LET d == all[order[k]]
             seen == {acc.mergedKeys[j] : j \in DOMAIN acc.mergedKeys}
             next ==
                 IF ~d.JWKS.isNil /\ Len(d.JWKS.Keys) > 0
                 THEN [mergedKeys |-> acc.mergedKeys \o SelectSeq(d.JWKS.Keys, LAMBDA x : x \notin seen),
                       totalKeys |-> acc.totalKeys + d.KeyCount,
                       minCacheDuration |->
                           IF d.CacheDuration > 0 /\ d.CacheDuration < acc.minCacheDuration
                           THEN d.CacheDuration
                           ELSE acc.minCacheDuration]
                 ELSE acc
         IN  MergeLoopDedup(all, order, k + 1, next)

\* faulty variant: every positive cache duration replaces the minimum so far,
\* a larger one too
RECURSIVE MergeLoopLastWins(_, _, _, _)
MergeLoopLastWins(all, order, k, acc) ==
    IF k > Len(order) THEN acc
    ELSE LET d == all[order[k]]
             next ==
                 IF ~d.JWKS.isNil /\ Len(d.JWKS.Keys) > 0
                 THEN [mergedKeys |-> acc.mergedKeys \o d.JWKS.Keys,
                       totalKeys |-> acc.totalKeys + d.KeyCount,
                       minCacheDuration |->
                           IF d.CacheDuration > 0
                           THEN d.CacheDuration
                           ELSE acc.minCacheDuration]
                 ELSE acc
         IN  MergeLoopLastWins(all, order, k + 1, next)

\* the loop of handleGetMergedJWKS over the entries order[k..]
RECURSIVE MergeLoop(_, _, _, _)
MergeLoop(all, order, k, acc) ==
    IF k > Len(order) THEN acc
    ELSE LET d == all[order[k]]
             next ==
                 IF ~d.JWKS.isNil /\ Len(d.JWKS.Keys) > 0
                 THEN [mergedKeys |-> acc.mergedKeys \o d.JWKS.Keys,
                       totalKeys |-> acc.totalKeys + d.KeyCount,
                       minCacheDuration |->
                           IF d.CacheDuration > 0 /\ d.CacheDuration < acc.minCacheDuration
                           THEN d.CacheDuration
                           ELSE acc.minCacheDuration]
                 ELSE acc
         IN  MergeLoop(all, order, k + 1, next)

\* Server.handleGetAllJWKS on the map GetAll returned: the result map has the
\* JWKS of every entry whose JWKS pointer is not nil
handleGetAllJWKS(all) ==
    [name \in {n \in DOMAIN all : ~all[n].JWKS.isNil} |-> all[name].JWKS]

\* Server.handleGetMergedJWKS on the map GetAll returned, visited in `order`
handleGetMergedJWKS(all, order) ==
    LET acc == MergeLoop(all, order, 1,
                   [mergedKeys |-> <<>>, totalKeys |-> 0,
                    minCacheDuration |-> MergedDefaultCacheDuration])
    IN  [status |-> StatusOK,
         keys |-> acc.mergedKeys,
         maxAge |-> acc.minCacheDuration,
         totalKeys |-> acc.totalKeys,
         idpCount |-> Cardinality(DOMAIN all)]

\* faulty variant: an entry whose latest attempt failed is answered as not found
handleGetIDPJWKSHidesFailed(idpName, got) ==
    LET fail(code) == [status |-> code, keys |-> <<>>, maxAge |-> 0, keyCount |-> 0,
                       maxKeys |-> 0, lastUpdated |-> ZeroTime]
    IN  IF idpName = "" THEN fail(StatusBadRequest)
        ELSE IF ~got.exists THEN fail(StatusNotFound)
        ELSE IF got.d.JWKS.isNil \/ got.d.LastError # "" THEN fail(StatusNotFound)
        ELSE [status |-> StatusOK,
              keys |-> got.d.JWKS.Keys,
              maxAge |-> got.d.CacheDuration,
              keyCount |-> got.d.KeyCount,
              maxKeys |-> got.d.MaxKeys,
              lastUpdated |-> got.d.LastUpdated]

\* Server.handleGetIDPJWKS for the path /jwks/<idpName>, on what Get returned
handleGetIDPJWKS(idpName, got) ==
    LET fail(code) == [status |-> code, keys |-> <<>>, maxAge |-> 0, keyCount |-> 0,
                       maxKeys |-> 0, lastUpdated |-> ZeroTime]
    IN  IF idpName = "" THEN fail(StatusBadRequest)
        ELSE IF ~got.exists THEN fail(StatusNotFound)
        ELSE IF got.d.JWKS.isNil THEN fail(StatusNotFound)
        ELSE [status |-> StatusOK,
              keys |-> got.d.JWKS.Keys,
              maxAge |-> got.d.CacheDuration,
              keyCount |-> got.d.KeyCount,
              maxKeys |-> got.d.MaxKeys,
              lastUpdated |-> got.d.LastUpdated]

\* faulty variant: looking a name up leaves an empty entry for it in the map
GetEnterCreatesEntry(q, name) ==
    /\ rpc[q].state = "idle"
    /\ CanRLock
    /\ mu' = [mu EXCEPT !.r = @ \cup {q}]
    /\ rpc' = [rpc EXCEPT ![q] = [state |-> "reading", call |-> "Get", name |-> name]]
    /\ data' = [n \in DOMAIN data \cup {name} |-> EntryFor(data, n)]
    /\ UNCHANGED <<upc, call, cancelled, now, installed, hist, pvars, hvars>>

\* faulty variant: Get reads the map without taking RLock
GetEnterWithoutRLock(q, name) ==
    /\ rpc[q].state = "idle"
    /\ rpc' = [rpc EXCEPT ![q] = [state |-> "reading", call |-> "Get", name |-> name]]
    /\ UNCHANGED <<data, mu, upc, call, cancelled, now, installed, hist, pvars, hvars>>

\* A handler calls Manager.Get(name): RLock is taken (handleGetIDPJWKS,
\* handleIDPStatus)
GetEnter(q, name) ==
    /\ rpc[q].state = "idle"
    /\ CanRLock
    /\ mu' = [mu EXCEPT !.r = @ \cup {q}]
    /\ rpc' = [rpc EXCEPT ![q] = [state |-> "reading", call |-> "Get", name |-> name]]
    /\ UNCHANGED <<data, upc, call, cancelled, now, installed, hist, pvars, hvars>>

\* A handler calls Manager.GetAll(): RLock is taken (handleGetMergedJWKS,
\* handleGetAllJWKS, handleStatus)
GetAllEnter(q) ==
    /\ rpc[q].state = "idle"
    /\ CanRLock
    /\ mu' = [mu EXCEPT !.r = @ \cup {q}]
    /\ rpc' = [rpc EXCEPT ![q] = [state |-> "reading", call |-> "GetAll", name |-> ""]]
    /\ UNCHANGED <<data, upc, call, cancelled, now, installed, hist, pvars, hvars>>

\* Get or GetAll has built its copy from the map: the deferred RUnlock runs
\* and the copy goes back to the handler, which answers from it
ReadReturn(q) ==
    /\ rpc[q].state = "reading"
    /\ mu' = [mu EXCEPT !.r = @ \ {q}]
    /\ rpc' = [rpc EXCEPT ![q] = IdleQuery]
    /\ UNCHANGED <<data, upc, call, cancelled, now, installed, hist, pvars, hvars>>

\* -------------------------------------------------------------- the system
Next ==
    \/ \E i \in Updaters : fetchAndUpdate(i)
    \/ \E i \in Updaters : UpdateWithIDPCacheEnter(i)
    \/ \E i \in Updaters : UpdateWithIDPCacheExit(i)
    \/ \E i \in Updaters : StartOnTick(i)
    \/ \E i \in Updaters : StartOnDone(i)
    \/ Cancel
    \/ \E q \in Readers, name \in QueryNames : GetEnter(q, name)
    \/ \E q \in Readers : GetAllEnter(q)
    \/ \E q \in Readers : ReadReturn(q)

Spec == Init /\ [][Next]_vars

\* the same system serving two requests at once
RWNext ==
    \/ \E i \in Updaters : fetchAndUpdate(i)
    \/ \E i \in Updaters : UpdateWithIDPCacheEnter(i)
    \/ \E i \in Updaters : UpdateWithIDPCacheExit(i)
    \/ \E i \in Updaters : StartOnTick(i)
    \/ \E i \in Updaters : StartOnDone(i)
    \/ Cancel
    \/ \E q \in AllReaders, name \in QueryNames : GetEnter(q, name)
    \/ \E q \in AllReaders : GetAllEnter(q)
    \/ \E q \in AllReaders : ReadReturn(q)

RWSpec == Init /\ [][RWNext]_vars

\* ------------------------------------------------- GetAll, entry by entry
\* Manager.GetAll at the grain of its loop: RLock, one copy per round of
\* "for name, data := range m.data", RUnlock at the return. The handler that
\* calls it is q1.
CutUnchanged ==
    UNCHANGED <<data, upc, call, cancelled, now, installed, rpc, hist, header, parsed,
                upstreamKey, storedKey, servedKey, boot, loop, hvars>>

\* faulty variant: the loop starts without m.mu.RLock()
GetAllRLockSkipped ==
    /\ cut.pc = "idle"
    /\ cut' = [pc |-> "copying", todo |-> DOMAIN data, result |-> <<>>]
    /\ mu' = mu
    /\ CutUnchanged

\* m.mu.RLock(); result := make(...); the range begins over the entries there are
GetAllRLock ==
    /\ cut.pc = "idle"
    /\ CanRLock
    /\ mu' = [mu EXCEPT !.r = @ \cup {"q1"}]
    /\ cut' = [pc |-> "copying", todo |-> DOMAIN data, result |-> <<>>]
    /\ CutUnchanged

\* one round of the range loop: result[name] = &IDPData{...}, in any order
GetAllCopyEntry(n) ==
    /\ cut.pc = "copying"
    /\ n \in cut.todo
    /\ n \in DOMAIN data
    /\ cut' = [cut EXCEPT !.todo = @ \ {n},
                          !.result = [k \in DOMAIN cut.result \cup {n} |->
                                         IF k = n THEN GetAllCopy(data[n])
                                         ELSE cut.result[k]]]
    /\ mu' = mu
    /\ CutUnchanged

\* return result, with the deferred RUnlock
GetAllReturn ==
    /\ cut.pc = "copying"
    /\ cut.todo = {}
    /\ mu' = [mu EXCEPT !.r = @ \ {"q1"}]
    /\ cut' = [cut EXCEPT !.pc = "returned"]
    /\ CutUnchanged

\* the handler has answered from the result; the next request comes
GetAllAgain ==
    /\ cut.pc = "returned"
    /\ cut' = NoGetAll
    /\ mu' = mu
    /\ CutUnchanged

CutNext ==
    \/ \E i \in Updaters : fetchAndUpdate(i)
    \/ \E i \in Updaters : UpdateWithIDPCacheEnter(i)
    \/ \E i \in Updaters : UpdateWithIDPCacheExit(i)
    \/ \E i \in Updaters : StartOnTick(i)
    \/ \E i \in Updaters : StartOnDone(i)
    \/ Cancel
    \/ GetAllRLock
    \/ \E n \in IDPs : GetAllCopyEntry(n)
    \/ GetAllReturn
    \/ GetAllAgain

CutSpec == Init /\ [][CutNext]_vars

\* The scheduling the program relies on: an HTTP exchange ends (the client has
\* a 10 s timeout); a Lock call waiting on the RWMutex is served (a waiting
\* writer keeps new readers out); a critical section and a read end; a select
\* with <-ctx.Done() ready picks it sooner or later (select chooses among the
\* ready cases at random).
Fairness ==
    /\ \A i \in Updaters :
          /\ WF_vars(fetchAndUpdate(i))
          /\ SF_vars(UpdateWithIDPCacheEnter(i))
          /\ WF_vars(UpdateWithIDPCacheExit(i))
          /\ SF_vars(StartOnDone(i))
    /\ \A q \in Readers : WF_vars(ReadReturn(q))

FairSpec == Spec /\ Fairness

\* ------------------------------------------------ the registry as pointers
\* Manager.data maps a name to an *IDPData and IDPData.JWKS is a *JWKS: what
\* an updater writes through a pointer is seen by whoever holds that pointer.
\* Here the structs and the JWKS objects live at addresses; UpdateWithIDPCache
\* runs under Lock and Get/GetAll under RLock, so each is one step, and a
\* handler goes on using what it was handed after the lock is released.
NilPointer == 0

\* the address of the struct m.data[name] points to
MapEntryAddress(name) == <<"data", name>>

\* the address of the struct &IDPData{...} that Get or GetAll builds for handler q
CopyAddress(q, name) == <<q, name>>

\* the names that have an entry in m.data
HeapNames == {n \in IDPs : MapEntryAddress(n) \in DOMAIN idpDataAt}

\* &IDPData{Name: name}, with a nil JWKS pointer
NewIDPDataAt(name) == [NewIDPData(name) EXCEPT !.JWKS = NilPointer]

\* var jwks JWKS in fetch: an address not in use
FreshJWKS == CHOOSE p \in 1..(Cardinality(DOMAIN jwksAt) + 1) : p \notin DOMAIN jwksAt

\* faulty variant: the new keys are written into the JWKS object the entry
\* already points to (*data.JWKS = *jwks)
PublishedJWKSReusesObject(old, fresh) == IF old # NilPointer THEN old ELSE fresh

\* data.JWKS = jwks: the entry points to the object fetch built
PublishedJWKS(old, fresh) == fresh

\* faulty variant: Get and GetAll hand out the map's own pointer
ReturnedPointerIsMapEntry(q, name) == MapEntryAddress(name)

\* return dataCopy / result[name] = &IDPData{...}: the pointer handed out
ReturnedPointer(q, name) == CopyAddress(q, name)

\* the garbage collector: JWKS objects no struct points to are gone
Collect(objects, structs) ==
    [p \in {x \in DOMAIN objects : \E a \in DOMAIN structs : structs[a].JWKS = x} |-> objects[p]]

\* what a handler reads through the pointer a: the struct with its JWKS
Deref(structs, objects, a) ==
    [structs[a] EXCEPT !.JWKS = IF @ = NilPointer THEN NilJWKS ELSE MkJWKS(objects[@])]

\* faulty variant: the success branch adds the new keys to the key count
HeapOutcomeAccumulates(d, c, t, target, keys) ==
    IF ~c.err.isNil
    THEN [d EXCEPT !.LastError = c.err.text]
    ELSE [d EXCEPT !.JWKS = target,
                   !.KeyCount = @ + Len(keys),
                   !.CacheUntil = t + c.cacheDuration,
                   !.LastError = ""]

\* UpdateWithIDPCache, the error branch and the success branch, on a struct
\* whose JWKS is a pointer: target is where the entry points afterwards
HeapOutcome(d, c, t, target, keys) ==
    IF ~c.err.isNil
    THEN [d EXCEPT !.LastError = c.err.text]
    ELSE [d EXCEPT !.JWKS = target,
                   !.KeyCount = Len(keys),
                   !.CacheUntil = t + c.cacheDuration,
                   !.LastError = ""]

\* One attempt of updater i: fetchAndUpdate with its UpdateWithIDPCache call.
\* The first attempt runs at launch, a later one when the ticker fires.
HeapFetchAndUpdate(i) ==
    /\ \E o \in FetchOutcomes :
         LET c == Arguments(i, o.ret)
             a == MapEntryAddress(c.name)
             exists == a \in DOMAIN idpDataAt
             t == IF exists THEN now + 1 ELSE now
             d0 == IF exists THEN idpDataAt[a] ELSE NewIDPDataAt(c.name)
             d1 == UpdateEveryAttempt(d0, c, t)
             fresh == FreshJWKS
             keys == ApplyKeyLimit(c.jwks.Keys, c.maxKeys)
             target == PublishedJWKS(d0.JWKS, fresh)
             d2 == HeapOutcome(d1, c, t, target, keys)
             structs == [x \in DOMAIN idpDataAt \cup {a} |-> IF x = a THEN d2 ELSE idpDataAt[x]]
             objects ==
                 IF ~c.err.isNil THEN jwksAt
                 ELSE [x \in DOMAIN jwksAt \cup {fresh, target} |->
                          IF x = target THEN keys
                          ELSE IF x = fresh THEN c.jwks.Keys
                          ELSE jwksAt[x]]
         IN  /\ exists => now < MaxTime
             /\ now' = t
             /\ idpDataAt' = structs
             /\ jwksAt' = Collect(objects, structs)
             /\ lastResp' = [lastResp EXCEPT ![i] =
                                 [resp |-> o.resp, repeated |-> (o.resp = lastResp[i].resp)]]
    /\ UNCHANGED <<data, mu, upc, call, cancelled, installed, rpc, hist, pvars, held>>

\* Manager.Get(name) for an existing name, called by handler q: the copy is
\* built and its pointer returned; seen is what q reads through it right away
HeapGet(q, name) ==
    /\ ~held[q].active
    /\ name \in HeapNames
    /\ LET structs == [x \in DOMAIN idpDataAt \cup {CopyAddress(q, name)} |->
                          IF x = CopyAddress(q, name)
                          THEN GetCopy(idpDataAt[MapEntryAddress(name)])
                          ELSE idpDataAt[x]]
           r == ReturnedPointer(q, name)
       IN  /\ idpDataAt' = structs
           /\ held' = [held EXCEPT ![q] =
                          [active |-> TRUE,
                           ptrs |-> [n \in {name} |-> r],
                           seen |-> [n \in {name} |-> Deref(structs, jwksAt, r)]]]
    /\ UNCHANGED <<data, mu, upc, call, cancelled, now, installed, rpc, hist, pvars, jwksAt,
                   lastResp>>

\* Manager.GetAll() called by handler q: a copy per entry of the map
HeapGetAll(q) ==
    /\ ~held[q].active
    /\ LET copies == {CopyAddress(q, n) : n \in HeapNames}
           structs == [x \in DOMAIN idpDataAt \cup copies |->
                          IF x \in copies
                          THEN GetAllCopy(idpDataAt[MapEntryAddress(x[2])])
                          ELSE idpDataAt[x]]
       IN  /\ idpDataAt' = structs
           /\ held' = [held EXCEPT ![q] =
                          [active |-> TRUE,
                           ptrs |-> [n \in HeapNames |-> ReturnedPointer(q, n)],
                           seen |-> [n \in HeapNames |->
                                        Deref(structs, jwksAt, ReturnedPointer(q, n))]]]
    /\ UNCHANGED <<data, mu, upc, call, cancelled, now, installed, rpc, hist, pvars, jwksAt,
                   lastResp>>

\* handler q has written its response: what it held is garbage
HeapRelease(q) ==
    /\ held[q].active
    /\ LET structs == [x \in {y \in DOMAIN idpDataAt : y[1] # q} |-> idpDataAt[x]]
       IN  /\ idpDataAt' = structs
           /\ jwksAt' = Collect(jwksAt, structs)
    /\ held' = [held EXCEPT ![q] = NothingHeld]
    /\ UNCHANGED <<data, mu, upc, call, cancelled, now, installed, rpc, hist, pvars, lastResp>>

HeapNext ==
    \/ \E i \in Updaters : HeapFetchAndUpdate(i)
    \/ \E q \in Readers, name \in IDPs : HeapGet(q, name)
    \/ \E q \in Readers : HeapGetAll(q)
    \/ \E q \in Readers : HeapRelease(q)

HeapSpec == Init /\ [][HeapNext]_vars

\* ============================================================ properties
\* an updater whose publish call is pending or running
Publishing(i) == upc[i] \in {"publish", "locked"}

\* the step in which updater i completes its UpdateWithIDPCache call
PublishDone(i) == upc[i] = "locked" /\ upc'[i] = "wait"

\* a reader is inside Get / GetAll
ReadingGet(q) == rpc[q].state = "reading" /\ rpc[q].call = "Get"
ReadingGetAll(q) == rpc[q].state = "reading" /\ rpc[q].call = "GetAll"

\* the IDPs whose stored JWKS holds at least one key
Loaded(n) == n \in DOMAIN data /\ ~data[n].JWKS.isNil /\ Len(data[n].JWKS.Keys) > 0
LoadedIDPs == {n \in IDPs : Loaded(n)}

MinOf(S) == CHOOSE m \in S : \A x \in S : m <= x

\* the first min(Len(keys), k) elements of keys
Prefix(keys, k) == [j \in 1..(IF Len(keys) < k THEN Len(keys) ELSE k) |-> keys[j]]

\* C1: the cache duration an attempt chooses is the configured c when the
\* upstream suggested nothing (s = 0), s when 0 < s < c, and c when s >= c.
C1_ArbiterTable ==
    \A i \in Updaters :
        Publishing(i) =>
            LET s == call[i].idpSuggestedCache
                c == GetCacheDuration(Config[i])
            IN  call[i].cacheDuration = (IF s = 0 THEN c ELSE IF s < c THEN s ELSE c)

\* C2: the max-age of the merged endpoint is the minimum cache_duration over
\* the IDPs whose keys are in the response, and 900 when there is none.
C2_MergedCacheMinimum ==
    \A q \in Readers :
        ReadingGetAll(q) =>
            \A order \in RangeOrders(GetAll) :
                handleGetMergedJWKS(GetAll, order).maxAge =
                    (IF LoadedIDPs = {} THEN 900
                     ELSE MinOf({data[n].CacheDuration : n \in LoadedIDPs}))

\* C3: a failed attempt that follows a successful one leaves jwks,
\* last_updated, key_count and cache_until of the IDP's entry as the success
\* left them, and sets a non-empty last_error.
C3_FailureFrame ==
    [][\A i \in Updaters :
          (PublishDone(i) /\ ~call[i].err.isNil /\ i \in DOMAIN installed
             /\ installed[i].LastError = "") =>
              /\ data'[i].JWKS = installed[i].JWKS
              /\ data'[i].LastUpdated = installed[i].LastUpdated
              /\ data'[i].KeyCount = installed[i].KeyCount
              /\ data'[i].CacheUntil = installed[i].CacheUntil
              /\ data'[i].LastError # ""]_vars

C5_TruncationInvariant ==
    \A n \in DOMAIN data :
        Loaded(n) =>
            /\ data[n].KeyCount = Len(data[n].JWKS.Keys)
            /\ Len(data[n].JWKS.Keys) <= data[n].MaxKeys

\* an IDP holds exactly max_keys keys after its upstream sent more
C5_Witness ==
    \E n \in IDPs :
        /\ Loaded(n)
        /\ data[n].KeyCount = GetMaxKeys(Config[n])
        /\ data[n].JWKS.Keys # Body(data[n].KeyCount)

\* C6: the JWKS a successful attempt stores is the first min(n, max_keys) keys
\* of the n keys the upstream sent, in upstream order.
C6_TruncationKeepsPrefix ==
    [][\A i \in Updaters :
          (PublishDone(i) /\ call[i].err.isNil) =>
              LET up == call[i].jwks.Keys
                  m == IF Len(up) < GetMaxKeys(Config[i]) THEN Len(up) ELSE GetMaxKeys(Config[i])
              IN  /\ Len(data'[i].JWKS.Keys) = m
                  /\ \A j \in 1..m : data'[i].JWKS.Keys[j] = up[j]]_vars

\* a successful attempt is about to store an upstream array longer than max_keys
C6_Witness ==
    \E i \in Updaters :
        /\ upc[i] = "locked"
        /\ call[i].err.isNil
        /\ Len(call[i].jwks.Keys) > GetMaxKeys(Config[i])

\* C7: what Get(name) returns and every entry of what GetAll() returns equals,
\* in all fields, the state a completed publish installed for that IDP.
C7_NoPartialSnapshots ==
    \A q \in Readers :
        /\ (ReadingGet(q) /\ Get(rpc[q].name).exists) =>
               Get(rpc[q].name).d = installed[rpc[q].name]
        /\ ReadingGetAll(q) =>
               \A n \in DOMAIN GetAll : GetAll[n] = installed[n]

\* C8: for a loaded IDP, /jwks/{name} answers with max-age = the stored
\* cache_duration, X-Key-Count = the stored key_count, X-Max-Keys = the stored
\* max_keys, and the stored keys as body.
C8_PerIDPViewValues ==
    \A q \in Readers :
        (ReadingGet(q) /\ Loaded(rpc[q].name)) =>
            LET n == rpc[q].name
                resp == handleGetIDPJWKS(n, Get(n))
            IN  /\ resp.status = 200
                /\ resp.maxAge = data[n].CacheDuration
                /\ resp.keyCount = data[n].KeyCount
                /\ resp.maxKeys = data[n].MaxKeys
                /\ resp.keys = data[n].JWKS.Keys

\* the key arrays of the IDPs order[k..] that hold keys, one after the other
RECURSIVE ConcatStored(_, _)
ConcatStored(order, k) ==
    IF k > Len(order) THEN <<>>
    ELSE (IF Loaded(order[k]) THEN data[order[k]].JWKS.Keys ELSE <<>>)
         \o ConcatStored(order, k + 1)

RECURSIVE SumKeyCount(_)
SumKeyCount(S) ==
    IF S = {} THEN 0
    ELSE LET n == CHOOSE x \in S : TRUE
         IN  data[n].KeyCount + SumKeyCount(S \ {n})

\* C9: the merged keys are the stored key arrays of the IDPs that hold keys,
\* each whole and in its stored order, one after the other in the order the
\* IDPs are visited, equal kids kept; X-Total-Keys is the sum of key_count
\* over those IDPs and the number of keys in the body.
C9_MergedViewContent ==
    \A q \in Readers :
        ReadingGetAll(q) =>
            \A order \in RangeOrders(GetAll) :
                LET resp == handleGetMergedJWKS(GetAll, order)
                IN  /\ resp.keys = ConcatStored(order, 1)
                    /\ resp.totalKeys = SumKeyCount(LoadedIDPs)
                    /\ resp.totalKeys = Len(resp.keys)

\* a merged query runs while two IDPs hold keys and share a kid
C9_Witness ==
    \E q \in Readers :
        /\ ReadingGetAll(q)
        /\ LoadedIDPs = IDPs
        /\ \E x, y \in IDPs :
              /\ x # y
              /\ \E j \in DOMAIN data[x].JWKS.Keys, l \in DOMAIN data[y].JWKS.Keys :
                    data[x].JWKS.Keys[j] = data[y].JWKS.Keys[l]

\* C10: X-IDP-Count of the merged endpoint is the number of configured IDPs,
\* also before an IDP's first attempt has completed.
C10_IDPCount ==
    \A q \in Readers :
        ReadingGetAll(q) =>
            \A order \in RangeOrders(GetAll) :
                handleGetMergedJWKS(GetAll, order).idpCount = Cardinality(IDPs)

StoredUpdateCount(i) == IF i \in DOMAIN data THEN data[i].UpdateCount ELSE 0

\* C12: after k completed attempts of an IDP, failed or not, its update_count
\* is k (k + 1 inside the k+1st publish, which has counted itself already).
C12_MonotoneAttempts ==
    \A i \in Updaters :
        StoredUpdateCount(i) = hist[i].attempts + (IF upc[i] = "locked" THEN 1 ELSE 0)

\* an IDP has completed a successful and then a failed attempt
C12_Witness ==
    \E i \in Updaters :
        /\ upc[i] = "wait"
        /\ hist[i].attempts = 2
        /\ hist[i].succeeded
        /\ hist[i].lastFailed
        /\ data[i].UpdateCount = 2

C14_MissingKeysIsFailure ==
    [][\A i \in Updaters :
          (PublishDone(i) /\ hist[i].noKeys) =>
              /\ data'[i].LastError # ""
              /\ data'[i].JWKS = data[i].JWKS]_vars

\* the update_count a Get(n), or the entry n of a GetAll, would return now
ObservedByGet(n) == LET g == Get(n) IN IF g.exists THEN g.d.UpdateCount ELSE 0
ObservedByGetAll(n) == IF n \in DOMAIN data THEN GetAllCopy(data[n]).UpdateCount ELSE 0

\* the update_count the last returned publish for n installed, 0 before it
InstalledCount(n) == IF n \in DOMAIN installed THEN installed[n].UpdateCount ELSE 0

\* C15: a Get or GetAll that runs after a publish for IDP n has returned sees
\* for n the update_count of that publish or of a later one; what it sees is
\* the number of attempts of n completed so far, which only grows, so that
\* successive reads never see it go backwards.
C15_ReadFreshness ==
    \A n \in IDPs :
        /\ (\E q \in Readers : ReadingGet(q) /\ rpc[q].name = n) =>
               /\ ObservedByGet(n) >= InstalledCount(n)
               /\ ObservedByGet(n) = hist[n].attempts
        /\ (\E q \in Readers : ReadingGetAll(q)) =>
               /\ ObservedByGetAll(n) >= InstalledCount(n)
               /\ ObservedByGetAll(n) = hist[n].attempts

\* a Get runs for an IDP whose second publish has returned
C15_Witness ==
    \E q \in Readers :
        /\ ReadingGet(q)
        /\ rpc[q].name \in DOMAIN installed
        /\ installed[rpc[q].name].UpdateCount = 2
        /\ Get(rpc[q].name).d.UpdateCount = 2

\* the attempts updater i has begun: the completed ones and the one under way
AttemptsBegun(i) ==
    hist[i].attempts + (IF upc[i] \in {"fetching", "publish", "locked"} THEN 1 ELSE 0)

\* C17: an updater waits for a tick only after its first attempt has been
\* published, and it has begun one attempt at launch plus exactly one attempt
\* for each tick of its own ticker it received.
C17_StartupOrdering ==
    \A i \in Updaters :
        /\ upc[i] \in {"wait", "stopped"} => hist[i].attempts >= 1
        /\ AttemptsBegun(i) = 1 + hist[i].ticks

\* an updater has published its first attempt and a tick started its second
C17_Witness ==
    \E i \in Updaters :
        /\ upc[i] = "fetching"
        /\ hist[i].attempts = 1
        /\ hist[i].ticks = 1

\* C18: once cancel() has been called every updater leaves its loop, from
\* the select or after the attempt it is in, and one that left stays out.
C18_CancellationLiveness ==
    /\ cancelled ~> (\A i \in Updaters : upc[i] = "stopped")
    /\ [][\A i \in Updaters : upc[i] = "stopped" => upc'[i] = "stopped"]_vars

\* the signal has been raised while an attempt was under way, and every
\* updater has returned
C18_Witness ==
    /\ cancelled
    /\ \A i \in Updaters : upc[i] = "stopped"
    /\ \E i \in Updaters : hist[i].attempts = 2

\* C19: after cancel() has been called no updater's UpdateWithIDPCache call
\* takes effect: the result of an attempt that was under way is dropped.
C19_NoPublishAfterCancel ==
    [][\A i \in Updaters :
          cancelled => ~(upc[i] = "publish" /\ upc'[i] = "locked")]_vars

\* the max-age directives of header h whose value is a non-negative integer
WholeMaxAge(h) == {k \in DOMAIN h : h[k].name = MaxAgePrefix /\ h[k].value.isNat}

\* C20: parseCacheControl returns n for a header whose first directive of the
\* form max-age=<non-negative integer> carries n, spaces around directives
\* allowed, and 0 for a header that is absent or empty, has no max-age
\* directive, or whose max-age value is empty, negative or followed by
\* characters that are not digits.
C20_ParseCacheControl ==
    parsed.done =>
        parsed.maxAge =
            (IF WholeMaxAge(header) = {} THEN 0
             ELSE header[MinOf(WholeMaxAge(header))].value.n)

\* C16: what a handler reads through the pointers Get or GetAll returned to
\* it, the JWKS behind them included, stays what it was when they were
\* returned, whatever is published afterwards.
C16_SnapshotIsolation ==
    \A q \in Readers :
        held[q].active =>
            \A n \in DOMAIN held[q].ptrs :
                Deref(idpDataAt, jwksAt, held[q].ptrs[n]) = held[q].seen[n]

\* a handler holds a loaded IDP's snapshot while a later successful attempt
\* has replaced that IDP's JWKS in the registry
C16_Witness ==
    \E q \in Readers :
        /\ held[q].active
        /\ \E n \in DOMAIN held[q].ptrs :
              /\ Len(held[q].seen[n].JWKS.Keys) > 0
              /\ idpDataAt[MapEntryAddress(n)].UpdateCount > held[q].seen[n].UpdateCount
              /\ idpDataAt[MapEntryAddress(n)].JWKS # idpDataAt[held[q].ptrs[n]].JWKS

\* the entry of IDP n as the registry holds it, its JWKS included
Stored(n) == Deref(idpDataAt, jwksAt, MapEntryAddress(n))

\* the step is a whole attempt of updater i
AttemptOf(i) ==
    /\ MapEntryAddress(i) \in DOMAIN idpDataAt'
    /\ idpDataAt'[MapEntryAddress(i)].UpdateCount =
           (IF i \in HeapNames THEN idpDataAt[MapEntryAddress(i)].UpdateCount ELSE 0) + 1

C22_Passthrough ==
    servedKey.present => servedKey.key = upstreamKey

\* a served key that lost the member the JWK struct has no field for and
\* gained the alg member the upstream did not send
C22_Reached ==
    /\ servedKey.present
    /\ "key_ops" \in DOMAIN upstreamKey
    /\ "key_ops" \notin DOMAIN servedKey.key
    /\ "alg" \notin DOMAIN upstreamKey
    /\ "alg" \in DOMAIN servedKey.key


\* the names a configuration file lists more than once
DuplicateNames(file) ==
    {n \in IDPs : \E j, k \in DOMAIN file.idps : j # k /\ file.idps[j].name = n /\ file.idps[k].name = n}

\* C23: configuration errors are fatal at bootstrap: when the configuration
\* lists no IDPs or lists a name twice, loading fails and the process starts
\* no updater and no query server; two updaters never publish into the same
\* registry entry.
C23_ConfigErrorsFatal ==
    /\ (boot.file.idps = <<>> \/ DuplicateNames(boot.file) # {}) =>
           /\ boot.pc \in {"load", "fatal"}
           /\ boot.updaters = <<>>
           /\ ~boot.srv
    /\ \A n \in DOMAIN boot.m : Cardinality(boot.m[n].writers) <= 1

\* two updaters of one name have both written the same entry, and the server
\* runs
C23_Reached ==
    /\ boot.srv
    /\ \E n \in DOMAIN boot.m : Cardinality(boot.m[n].writers) = 2

C25_RegistryLifecycle ==
    /\ DOMAIN data \subseteq IDPs
    /\ \A n \in IDPs :
          /\ (n \in DOMAIN data) = (hist[n].attempts >= 1 \/ upc[n] = "locked")
          /\ n \in DOMAIN data =>
                /\ data[n].Name = n
                /\ data[n].UpdateCount =
                       hist[n].attempts + (IF upc[n] = "locked" THEN 1 ELSE 0)
                /\ hist[n].succeeded => ~data[n].JWKS.isNil

\* after a success and a failure of a the entry of a is the one its first
\* attempt created, and b, whose first attempt is not completed, has none
C25_Witness ==
    /\ "a" \in DOMAIN data /\ "b" \notin DOMAIN data
    /\ hist["a"].attempts = 2 /\ hist["a"].succeeded /\ hist["a"].lastFailed
    /\ data["a"].UpdateCount = 2
    /\ data["a"].LastError # ""
    /\ upc["a"] = "wait" /\ upc["b"] = "publish"


\* C26: in every state after an IDP's first successful attempt its stored
\* jwks holds at least one key, whatever attempts follow, a later 200 answer
\* with an empty keys array included.
C26_LoadedImpliesKeys ==
    \A n \in IDPs :
        (hist[n].succeeded /\ upc[n] # "locked") => Loaded(n)

\* a key set of one key has been replaced by the empty key set of a later
\* success
C26_Reached ==
    \E n \in IDPs :
        /\ upc[n] = "wait" /\ hist[n].attempts = 2 /\ ~hist[n].lastFailed
        /\ n \in DOMAIN installed
        /\ data[n].KeyCount = 0
        /\ ~data[n].JWKS.isNil /\ data[n].JWKS.Keys = <<>>
        /\ data[n].LastError = ""

C28_FailureFrame ==
    [][\A i \in Updaters :
          (PublishDone(i) /\ ~call[i].err.isNil /\ i \in DOMAIN installed) =>
              /\ data'[i].CacheDuration = installed[i].CacheDuration
              /\ data'[i].IDPSuggestedCache = installed[i].IDPSuggestedCache
              /\ data'[i].MaxKeys = installed[i].MaxKeys
              /\ data'[i].RefreshInterval = installed[i].RefreshInterval]_vars

\* after a success that stored the upstream's 600 s, a failure has put the
\* configured duration and no suggestion in their place
C28_Reached ==
    \E n \in IDPs :
        /\ upc[n] = "wait" /\ hist[n].attempts = 2
        /\ hist[n].succeeded /\ hist[n].lastFailed
        /\ Loaded(n)
        /\ data[n].CacheDuration = GetCacheDuration(Config[n])
        /\ data[n].IDPSuggestedCache = 0
        /\ data[n].CacheUntil = 1 + 600

\* C29: in every state of a Loaded IDP cache_until equals last_updated plus
\* cache_duration seconds, the three values being those stored for the IDP,
\* also after a failed attempt that follows a success.
C29_CacheUntilConsistency ==
    \A n \in IDPs :
        (Loaded(n) /\ upc[n] # "locked") =>
            data[n].CacheUntil = data[n].LastUpdated + data[n].CacheDuration

\* a failure at instant 2 after a success at instant 1: last_updated has
\* moved, cache_until has not
C29_Reached ==
    \E n \in IDPs :
        /\ upc[n] = "wait" /\ Loaded(n) /\ hist[n].lastFailed
        /\ data[n].LastUpdated = 2
        /\ data[n].CacheUntil = 1 + data[n].CacheDuration


\* C30: in no reachable state is a publish inside its critical section while
\* another publish or any Get or GetAll is inside its critical section; any
\* number of Get and GetAll calls may be inside theirs at once.
C30_ReaderWriterExclusion ==
    \A i \in Updaters :
        upc[i] = "locked" =>
            /\ \A j \in Updaters \ {i} : upc[j] # "locked"
            /\ \A q \in AllReaders : rpc[q].state # "reading"

\* a Get and a GetAll are inside their critical sections at once while an
\* updater waits for the write lock
C30_Witness ==
    /\ ReadingGet("q1") /\ ReadingGetAll("q2")
    /\ \E i \in Updaters : upc[i] = "publish"
    /\ \E i \in Updaters : hist[i].attempts >= 1


\* no other updater is inside UpdateWithIDPCache; no handler is inside Get or
\* GetAll
NoWriterInside(i) == \A j \in Updaters \ {i} : upc[j] # "locked"
NoReaderInside == \A q \in AllReaders : rpc[q].state # "reading"

\* C31 as stated: a publish is blocked only by other writers: an updater that
\* calls UpdateWithIDPCache while readers are inside Get or GetAll proceeds
\* without waiting for them; only another publish in progress delays it.
C31_BlockedOnlyByWriters ==
    \A i \in Updaters :
        (upc[i] = "publish" /\ NoWriterInside(i)) => ENABLED UpdateWithIDPCacheEnter(i)

\* C31 as amended: a publish waits for another publish in progress and for the
\* readers that are inside Get or GetAll, and for nothing else: it proceeds
\* exactly when nobody holds the lock.
C31_BlockedByHolders ==
    \A i \in Updaters :
        upc[i] = "publish" =>
            (ENABLED UpdateWithIDPCacheEnter(i) <=> (NoWriterInside(i) /\ NoReaderInside))

\* an updater's second publish waits while a handler is inside GetAll and no
\* other publish is in progress
C31_Witness ==
    \E i \in Updaters :
        /\ upc[i] = "publish" /\ hist[i].attempts = 1
        /\ NoWriterInside(i)
        /\ ReadingGetAll("q1")
        /\ ~ENABLED UpdateWithIDPCacheEnter(i)


\* C32: an updater never holds the registry's write or read lock while its HTTP
\* request, body read or parse is in progress; while the fetch of one IDP is
\* stalled the publishes of the other IDPs and the queries are not kept out by
\* it: a publish can take the lock when no other holder is there, a query when
\* no publish is inside.
C32_NoLockAcrossIO ==
    \A i \in Updaters :
        /\ (mu.w = i) <=> (upc[i] = "locked")
        /\ i \notin mu.r
        /\ upc[i] = "fetching" =>
              /\ mu.w # i
              /\ \A j \in Updaters \ {i} :
                    (upc[j] = "publish" /\ NoWriterInside(j) /\ NoReaderInside) =>
                        ENABLED UpdateWithIDPCacheEnter(j)
              /\ \A q \in Readers :
                    (rpc[q].state = "idle" /\ NoWriterInside("none")) =>
                        /\ ENABLED GetAllEnter(q)
                        /\ ENABLED GetEnter(q, i)

\* while a is in its second fetch, b is inside its publish
C32_Witness ==
    /\ upc["a"] = "fetching" /\ hist["a"].attempts = 1
    /\ upc["b"] = "locked" /\ mu.w = "b"
    /\ rpc["q1"].state = "idle"


\* C33: an updater that is waiting between ticks when the cancellation signal
\* is raised exits without starting another fetch attempt, also when a tick
\* becomes ready at the same time as or after the cancellation.
C33_NoAttemptAfterCancel ==
    [][\A i \in Updaters :
          (cancelled /\ upc[i] = "wait") => upc'[i] # "fetching"]_vars


\* C34: at any time each updater has at most one fetch attempt, one HTTP
\* request, in flight; an attempt is never retried within itself (it sends one
\* request); a tick that arrives while an attempt is running does not start a
\* concurrent attempt.
C34_AttemptsNeverOverlap ==
    \A i \in Updaters :
        /\ loop[i].inflight <= 1
        /\ loop[i].inflight = (IF loop[i].pc = "request" THEN 1 ELSE 0)
        /\ loop[i].sent = loop[i].attempts - (IF loop[i].pc = "fetch" THEN 1 ELSE 0)
        /\ loop[i].attempts <= 1 + loop[i].fired - loop[i].missed - loop[i].tick

\* a tick has arrived while the second attempt's request is in flight, and
\* waits in the channel
C34_Witness ==
    \E i \in Updaters :
        /\ loop[i].pc = "request" /\ loop[i].attempts = 2
        /\ loop[i].tick = 1 /\ loop[i].fired = 2
        /\ loop[i].inflight = 1


\* C35: no query operation, with any name, known or unknown, changes a field
\* of a registry entry or creates an entry: the registry is the same before and
\* after every step of a query.
C35_QueriesReadOnly ==
    [][(\E q \in Readers : rpc'[q] # rpc[q]) => data' = data]_vars

\* a query for a name that is not configured is inside Get while the registry
\* holds the entries of both IDPs and none for that name
C35_Witness ==
    /\ ReadingGet("q1") /\ rpc["q1"].name = "nope"
    /\ DOMAIN data = IDPs
    /\ data = installed

\* C36: a publish for one IDP, success or failure, changes only that IDP's
\* entry: whatever the other updaters do, the entry of an IDP whose own updater
\* is not inside its publish is the one that updater's last publish left.
C36_SlotLocal ==
    \A n \in IDPs :
        upc[n] # "locked" =>
            /\ (n \in DOMAIN data) = (n \in DOMAIN installed)
            /\ n \in DOMAIN data => data[n] = installed[n]

\* b is inside its second publish, at a later instant than a's only publish
C36_Witness ==
    /\ upc["b"] = "locked" /\ hist["b"].attempts = 1
    /\ upc["a"] = "wait" /\ hist["a"].attempts = 1
    /\ data["a"] = installed["a"] /\ data["a"].LastUpdated = 1
    /\ data["b"] # installed["b"] /\ data["b"].LastUpdated = 2


\* C37: the mapping one GetAll call returns equals the content of the whole
\* registry at a single instant: all entries are read under one read lock, so
\* that every copy made so far is the copy of the registry as it is now, and at
\* the return the result is the registry of that instant; it never combines an
\* entry from before a publish with another from after a later one.
C37_AtomicCut ==
    cut.pc = "copying" =>
        /\ DOMAIN cut.result \cup cut.todo = DOMAIN data
        /\ \A n \in DOMAIN cut.result : cut.result[n] = GetAllCopy(data[n])
        /\ \A i \in Updaters : upc[i] # "locked"

\* the copy of a is made and the one of b is not, while b waits to publish its
\* second attempt
C37_Witness ==
    /\ cut.pc = "copying" /\ cut.todo = {"b"}
    /\ "a" \in DOMAIN cut.result /\ cut.result["a"].UpdateCount = 1
    /\ upc["b"] = "publish" /\ hist["b"].attempts = 1


\* C38: the /jwks map has an entry for exactly the IDPs whose stored JWKS
\* holds at least one key; an IDP that has a registry entry but no keys, one
\* whose stored JWKS has zero keys included, is left out.
C38_AllJWKSOnlyLoaded ==
    \A q \in Readers :
        ReadingGetAll(q) => DOMAIN handleGetAllJWKS(GetAll) = LoadedIDPs

\* the /jwks map lists an IDP whose stored key set is empty
C38_Reached ==
    \E q \in Readers :
        /\ ReadingGetAll(q)
        /\ \E n \in DOMAIN handleGetAllJWKS(GetAll) :
              /\ handleGetAllJWKS(GetAll)[n].Keys = <<>>
              /\ ~Loaded(n)


C40_ServerFailureCancels ==
    /\ [](boot.srvErr => cancelled)
    /\ boot.srvErr ~> ((\A i \in Updaters : loop[i].pc = "stopped") \/ boot.pc = "exited")
    /\ [](boot.pc # "wait" => boot.sig)

\* the server has failed, no signal was delivered, every updater has left
\* its loop, one of them after a second attempt, and main is still waiting
C40_Witness ==
    /\ boot.srvErr
    /\ ~boot.sig
    /\ boot.pc = "wait"
    /\ \A i \in Updaters : loop[i].pc = "stopped"
    /\ \E i \in Updaters : loop[i].attempts = 2

====
